---- MODULE Spec2Model ----
(***************************************************************************)
(* Model of the trading loop of func_trades_zscore.py (main and the        *)
(* functions it calls) together with the exchange and the three CSV        *)
(* tables it reads.                                                        *)
(*                                                                         *)
(* Units.  z-scores and mean z-scores are integers in units of 1e-4, so    *)
(* TP_BUFFER = 0.0002 is 2 and ZSCORE_THRESHOLD = -1.5 is -15000.  PnL and *)
(* balances are whole USDT.  STOP_LOSS_PERCENT = 0.03 is kept in percent.  *)
(***************************************************************************)
EXTENDS Integers, Sequences, FiniteSets, TLC

\* ------------------------------------------------------------------------
\* Program constants (func_trades_zscore.py:31-35)
\* ------------------------------------------------------------------------
POSITION_SIZE == 50

LEVERAGE == 10

\* 0.03, in percent
STOP_LOSS_PERCENT == 3

\* -1.5, in units of 1e-4
ZSCORE_THRESHOLD == -15000

\* 0.0002, in units of 1e-4
TP_BUFFER == 2

\* ------------------------------------------------------------------------
\* Bounds of the model
\* ------------------------------------------------------------------------
\* rows of a z-score column of df_top50_coint.csv
ColLen == 2

\* contracts the account may hold, summed over the symbols
MaxExposure == 10

\* ------------------------------------------------------------------------
\* Values: Python floats that may be NaN, None or inf
\* ------------------------------------------------------------------------
Num(n) == [k |-> "num", v |-> n]

NaN == [k |-> "nan", v |-> 0]

None == [k |-> "none", v |-> 0]

Inf == [k |-> "inf", v |-> 0]

\* Python's  a < b  on floats: False whenever one side is NaN
FloatLess(a, b) ==
    /\ a.k \in {"num", "inf"}
    /\ b.k \in {"num", "inf"}
    /\ IF a.k = "inf" THEN FALSE
       ELSE IF b.k = "inf" THEN TRUE
       ELSE a.v < b.v

Abs(n) == IF n < 0 THEN -n ELSE n

\* round(a / b) to the nearest integer, ties to even (Python round), b > 0
RoundHalfEven(a, b) ==
    LET q == a \div b
        r == a % b
    IN  IF 2 * r < b THEN q
        ELSE IF 2 * r > b THEN q + 1
        ELSE IF q % 2 = 0 THEN q ELSE q + 1

RECURSIVE SumSeq(_)
SumSeq(s) == IF s = <<>> THEN 0 ELSE Head(s) + SumSeq(Tail(s))

\* ------------------------------------------------------------------------
\* Universe of the model
\* ------------------------------------------------------------------------
Symbols == {"A", "B", "C"}

\* rows that a scan can put into df_cointegrated_pairs.csv
CandidateRows ==
    { [sym_1 |-> "A", sym_2 |-> "B", hedge_ratio |-> 2],
      [sym_1 |-> "B", sym_2 |-> "C", hedge_ratio |-> 3] }

\* f"{sym_1}:{sym_2}"
pair_name(row) == <<row.sym_1, row.sym_2>>

PairNames == { pair_name(r) : r \in CandidateRows }

\* last-row z-scores a scan can produce (1e-4 units) besides NaN
ZValues == {-15001, -15000}

ZCells == { Num(z) : z \in ZValues } \cup {NaN}

Columns == [1..ColLen -> ZCells]

\* a z-score column that is not in df_top50_coint.csv
Absent == <<>>

\* a mean column that is not in df_mean_halflife.csv
NoColumn == [k |-> "nocol", v |-> 0]

\* unrealized PnL the exchange can report for one symbol
PnLValues == {-3, 0, 4}

\* last prices the exchange can report
Prices == {10, 25}

\* ------------------------------------------------------------------------
\* State
\* ------------------------------------------------------------------------
VARIABLES
    pc,                     \* "start", "loop" (inside while True) or "exited"
    current_orders,         \* None or <<long_order, short_order>>
    best_mean_zscore,       \* local of main, read by the monitor branch
    df_cointegrated_pairs,  \* df_cointegrated_pairs.csv: sequence of rows
    df_top50_coint,         \* df_top50_coint.csv: pair name -> z-score column
    df_mean_halflife,       \* df_mean_halflife.csv: pair name -> mean z-score
    position,               \* exchange: signed contracts held per symbol
    last                    \* what the last cycle did (the log of the cycle)

vars == <<pc, current_orders, best_mean_zscore, df_cointegrated_pairs,
          df_top50_coint, df_mean_halflife, position, last>>

files == <<df_cointegrated_pairs, df_top50_coint, df_mean_halflife>>

\* ------------------------------------------------------------------------
\* The hourly scan as main sees it: prepare_data_files
\* ------------------------------------------------------------------------
\* df[col].mean() of compute_mean_and_halflife: NaN cells are skipped, the
\* result is rounded to 2 decimals (100 units); a column of NaN only gives
\* None, which the CSV round trip turns into NaN.
column_mean(col) ==
    LET idx  == { i \in DOMAIN col : col[i].k = "num" }
        nums == [i \in DOMAIN col |-> IF i \in idx THEN col[i].v ELSE 0]
    IN  IF idx = {} THEN NaN
        ELSE Num(100 * RoundHalfEven(SumSeq(nums), 100 * Cardinality(idx)))

\* compute_mean_and_halflife: one '<pair>_mean_zscore' per '_zscore' column
compute_mean_and_halflife(top) ==
    [pn \in PairNames |->
        IF top[pn] = Absent THEN NoColumn ELSE column_mean(top[pn])]

\* final_df[col].rolling(window=20).mean() of process_pairs, last row; the
\* window covers the column, and one NaN in the window makes the mean NaN
rolling_mean(col) ==
    IF \E i \in DOMAIN col : col[i].k # "num" THEN NaN
    ELSE column_mean(col)

\* process_pairs: the z-score table is rebuilt with one column per row of
\* df_cointegrated_pairs.csv, and df_mean_halflife.csv is written from it
process_pairs_top(rows, cols) ==
    [pn \in PairNames |->
        IF \E i \in DOMAIN rows : pair_name(rows[i]) = pn
        THEN cols[pn] ELSE Absent]

process_pairs_mean(top) ==
    [pn \in PairNames |->
        IF top[pn] = Absent THEN NoColumn ELSE rolling_mean(top[pn])]

\* process_pairs was called and ran to its end, so that it wrote
\* df_top50_coint.csv and df_mean_halflife.csv
process_pairs_done(scan) ==
    scan.fetch_ok /\ scan.rows # <<>> /\ scan.process_ok

\* prepare_data_files: returns what it returned and the files it left.
\* scan.fetch_ok: fetch_and_process_data gave data; scan.rows: the rows of
\* get_cointegrated_pairs; scan.process_ok: process_pairs ran to its end
\* (it swallows its own exceptions); scan.cols: the columns it computes;
\* scan.mean_ok: compute_mean_and_halflife did not raise.
prepare_data_files(scan, cp, top, mh) ==
    IF ~scan.fetch_ok \/ scan.rows = <<>>
    THEN [ok |-> FALSE, cp |-> cp, top |-> top, mh |-> mh]
    ELSE
      LET top1 == IF scan.process_ok
                  THEN process_pairs_top(scan.rows, scan.cols) ELSE top
          mh1  == IF scan.process_ok THEN process_pairs_mean(top1) ELSE mh
          mh2  == compute_mean_and_halflife(top1)
      IN  IF ~scan.mean_ok \/ \A pn \in PairNames : top1[pn] = Absent
          THEN [ok |-> FALSE, cp |-> scan.rows, top |-> top1, mh |-> mh1]
          ELSE [ok |-> TRUE, cp |-> scan.rows, top |-> top1, mh |-> mh2]

\* ------------------------------------------------------------------------
\* Entry evaluation: the search of main, lines 289-307
\* ------------------------------------------------------------------------
\* the search without the comparison of line 304: the last row that has
\* both columns wins
RECURSIVE find_best_last_row(_, _, _, _)
find_best_last_row(rows, top, mh, best) ==
    IF rows = <<>> THEN best
    ELSE
      LET row == Head(rows)
          pn  == pair_name(row)
          has == top[pn] # Absent /\ mh[pn] # NoColumn
          best1 == IF has
                   THEN [best_pair |-> <<row>>, best_zscore |-> top[pn][ColLen],
                         best_mean_zscore |-> mh[pn]]
                   ELSE best
      IN  find_best_last_row(Tail(rows), top, mh, best1)

RECURSIVE find_best(_, _, _, _)
find_best(rows, top, mh, best) ==
    IF rows = <<>> THEN best
    ELSE
      LET row == Head(rows)
          pn  == pair_name(row)
          has == top[pn] # Absent /\ mh[pn] # NoColumn
          zscore == top[pn][ColLen]
          mean_zscore == mh[pn]
          best1 == IF has /\ FloatLess(zscore, best.best_zscore)
                   THEN [best_pair |-> <<row>>, best_zscore |-> zscore,
                         best_mean_zscore |-> mean_zscore]
                   ELSE best
      IN  find_best(Tail(rows), top, mh, best1)

best_init == [best_pair |-> <<>>, best_zscore |-> Inf, best_mean_zscore |-> None]

\* ------------------------------------------------------------------------
\* The exchange
\* ------------------------------------------------------------------------
\* current_orders = None
NoOrders == <<>>

\* the order dict create_order returns
Order(symbol, side, amount, filled) ==
    [symbol |-> symbol, side |-> side, amount |-> amount, filled |-> filled]

\* a filled market order moves the position of its symbol (one-way mode)
apply_order(pos, o) ==
    [pos EXCEPT ![o.symbol] =
        IF o.side = "buy" THEN @ + o.filled ELSE @ - o.filled]

RECURSIVE fill_all(_, _)
fill_all(pos, os) ==
    IF os = <<>> THEN pos ELSE fill_all(apply_order(pos, Head(os)), Tail(os))

\* position['contracts'] of fetch_positions: the size, without sign
contracts(pos, s) == Abs(pos[s])

exposure(pos) == contracts(pos, "A") + contracts(pos, "B") + contracts(pos, "C")

flat(pos) == \A s \in Symbols : pos[s] = 0

RECURSIVE SumPnl(_, _)
SumPnl(S, pnl) ==
    IF S = {} THEN 0
    ELSE LET s == CHOOSE x \in S : TRUE
         IN  pnl[s] + SumPnl(S \ {s}, pnl)

\* ------------------------------------------------------------------------
\* check_balance, open_positions, close_positions, check_positions
\* ------------------------------------------------------------------------
\* check_balance requiring the size of one side only
check_balance_one_side(bal) ==
    IF ~bal.ok THEN FALSE
    ELSE IF bal.free < POSITION_SIZE THEN FALSE
    ELSE TRUE

\* bal.ok: fetch_balance answered; bal.free: balance['free']['USDT']
check_balance(bal) ==
    IF ~bal.ok THEN FALSE
    ELSE IF bal.free < POSITION_SIZE * 2 THEN FALSE
    ELSE TRUE

\* what the exchange reports as filled for a market order of that amount
filled_of(amount, fill) == IF fill = "full" THEN amount ELSE amount - 1

\* open_positions with the short leg sized by the hedge ratio
open_positions_hedged(long_pair, short_pair, hedge_ratio, ex) ==
    LET long_quantity  == POSITION_SIZE \div ex.long_price
        short_quantity == (hedge_ratio * POSITION_SIZE) \div ex.short_price
        long_order  == Order(long_pair, "buy", long_quantity,
                             filled_of(long_quantity, ex.long_fill))
        short_order == Order(short_pair, "sell", short_quantity,
                             filled_of(short_quantity, ex.short_fill))
    IN  IF ~ex.ticker_ok
        THEN [orders |-> NoOrders, filled |-> <<>>, lev_calls |-> 2,
              entry_calls |-> 0]
        ELSE IF ~ex.long_ok
        THEN [orders |-> NoOrders, filled |-> <<>>, lev_calls |-> 2,
              entry_calls |-> 1]
        ELSE IF ~ex.short_ok
        THEN [orders |-> NoOrders, filled |-> <<long_order>>,
              lev_calls |-> 2, entry_calls |-> 2]
        ELSE [orders |-> <<long_order, short_order>>,
              filled |-> <<long_order, short_order>>,
              lev_calls |-> 2, entry_calls |-> 2]

\* open_positions returning both orders although the short order failed
open_positions_tracks_failed(long_pair, short_pair, hedge_ratio, ex) ==
    LET long_quantity  == POSITION_SIZE \div ex.long_price
        short_quantity == POSITION_SIZE \div ex.short_price
        long_order  == Order(long_pair, "buy", long_quantity,
                             filled_of(long_quantity, ex.long_fill))
        short_order == Order(short_pair, "sell", short_quantity,
                             filled_of(short_quantity, ex.short_fill))
    IN  IF ~ex.ticker_ok
        THEN [orders |-> NoOrders, filled |-> <<>>, lev_calls |-> 2,
              entry_calls |-> 0]
        ELSE IF ~ex.long_ok
        THEN [orders |-> NoOrders, filled |-> <<>>, lev_calls |-> 2,
              entry_calls |-> 1]
        ELSE IF ~ex.short_ok
        THEN [orders |-> <<long_order, short_order>>,
              filled |-> <<long_order>>,
              lev_calls |-> 2, entry_calls |-> 2]
        ELSE [orders |-> <<long_order, short_order>>,
              filled |-> <<long_order, short_order>>,
              lev_calls |-> 2, entry_calls |-> 2]

\* open_positions(binance_futures, long_pair, short_pair, hedge_ratio).
\* ex.ticker_ok: both fetch_ticker calls answered; ex.long_ok/short_ok:
\* create_order was accepted.  Gives the return value, the orders the
\* exchange filled, and the calls made.
open_positions(long_pair, short_pair, hedge_ratio, ex) ==
    LET long_quantity  == POSITION_SIZE \div ex.long_price
        short_quantity == POSITION_SIZE \div ex.short_price
        long_order  == Order(long_pair, "buy", long_quantity,
                             filled_of(long_quantity, ex.long_fill))
        short_order == Order(short_pair, "sell", short_quantity,
                             filled_of(short_quantity, ex.short_fill))
    IN  IF ~ex.ticker_ok
        THEN [orders |-> NoOrders, filled |-> <<>>, lev_calls |-> 2,
              entry_calls |-> 0]
        ELSE IF ~ex.long_ok
        THEN [orders |-> NoOrders, filled |-> <<>>, lev_calls |-> 2,
              entry_calls |-> 1]
        ELSE IF ~ex.short_ok
        THEN [orders |-> NoOrders, filled |-> <<long_order>>,
              lev_calls |-> 2, entry_calls |-> 2]
        ELSE [orders |-> <<long_order, short_order>>,
              filled |-> <<long_order, short_order>>,
              lev_calls |-> 2, entry_calls |-> 2]

\* the opposite market order close_positions sends for an entry order
close_order(order) ==
    Order(order.symbol, IF order.side = "buy" THEN "sell" ELSE "buy",
          order.filled, order.filled)

\* close_positions(binance_futures, orders): one opposite market order of
\* order['filled'] per order; the first create_order that raises ends the
\* loop (the exception is logged).  k: the orders closed before a failure.
close_positions(orders, k) ==
    [filled |-> [i \in 1..k |-> close_order(orders[i])],
     close_calls |-> IF k < Len(orders) THEN k + 1 ELSE k,
     close_error |-> k < Len(orders)]

\* get_current_zscore(binance_futures, pair1, pair2, hedge_ratio): None when
\* a fetch_ohlcv raises, else the last rolling z-score of the spread
get_current_zscore(ohlcv, pair1, pair2, hedge_ratio) ==
    IF ~ohlcv.ok THEN None ELSE ohlcv.zscore

\* the stop-loss comparison of line 138
stop_loss_hit(total_pnl) ==
    100 * total_pnl <= -STOP_LOSS_PERCENT * POSITION_SIZE * 2

\* the take-profit comparison with < in place of <=
take_profit_strict(current_zscore, mean_zscore) ==
    /\ current_zscore.k = "num"
    /\ mean_zscore.k = "num"
    /\ Abs(current_zscore.v - mean_zscore.v) < TP_BUFFER

\* the take-profit comparison of line 154; a NaN operand makes it False
take_profit_hit(current_zscore, mean_zscore) ==
    /\ current_zscore.k = "num"
    /\ mean_zscore.k = "num"
    /\ Abs(current_zscore.v - mean_zscore.v) <= TP_BUFFER

\* check_positions with the take-profit check ahead of the stop-loss check
check_positions_tp_first(px, ohlcv, pos, orders, mean_zscore) ==
    LET held == { s \in Symbols : contracts(pos, s) > 0 }
        total_pnl == SumPnl(held, px.pnl)
        current_zscore == get_current_zscore(ohlcv, orders[1].symbol,
                                             orders[2].symbol, mean_zscore)
    IN  IF ~px.ok
        THEN [close |-> FALSE, reason |-> "error", total_pnl |-> 0,
              zscore |-> None]
        ELSE IF take_profit_hit(current_zscore, mean_zscore)
        THEN [close |-> TRUE, reason |-> "take_profit",
              total_pnl |-> total_pnl, zscore |-> current_zscore]
        ELSE IF stop_loss_hit(total_pnl)
        THEN [close |-> TRUE, reason |-> "stop_loss",
              total_pnl |-> total_pnl, zscore |-> None]
        ELSE [close |-> FALSE, reason |-> "hold",
              total_pnl |-> total_pnl, zscore |-> current_zscore]

\* check_positions(binance_futures, orders, mean_zscore).
\* px.ok: fetch_positions answered; px.pnl: unrealizedPnl per symbol.
check_positions(px, ohlcv, pos, orders, mean_zscore) ==
    LET held == { s \in Symbols : contracts(pos, s) > 0 }
        total_pnl == SumPnl(held, px.pnl)
        current_zscore == get_current_zscore(ohlcv, orders[1].symbol,
                                             orders[2].symbol, mean_zscore)
    IN  IF ~px.ok
        THEN [close |-> FALSE, reason |-> "error", total_pnl |-> 0,
              zscore |-> None]
        ELSE IF stop_loss_hit(total_pnl)
        THEN [close |-> TRUE, reason |-> "stop_loss",
              total_pnl |-> total_pnl, zscore |-> None]
        ELSE IF current_zscore = None
        THEN [close |-> FALSE, reason |-> "error",
              total_pnl |-> total_pnl, zscore |-> None]
        ELSE IF mean_zscore = None
        THEN [close |-> FALSE, reason |-> "error",
              total_pnl |-> total_pnl, zscore |-> current_zscore]
        ELSE IF take_profit_hit(current_zscore, mean_zscore)
        THEN [close |-> TRUE, reason |-> "take_profit",
              total_pnl |-> total_pnl, zscore |-> current_zscore]
        ELSE [close |-> FALSE, reason |-> "hold",
              total_pnl |-> total_pnl, zscore |-> current_zscore]

\* ------------------------------------------------------------------------
\* The log of a cycle: what the cycle found and which calls it made
\* ------------------------------------------------------------------------
Log(kind, had_orders) ==
    [kind |-> kind, had_orders |-> had_orders, prepared |-> FALSE,
     best_pair |-> <<>>, best_zscore |-> Inf, opportunity |-> FALSE,
     bal_asked |-> FALSE, bal |-> [ok |-> FALSE, free |-> 0],
     lev_calls |-> 0, entry_calls |-> 0,
     entry_fills |-> 0, flat_before |-> TRUE, px_ok |-> FALSE,
     total_pnl |-> 0,
     tracked_pnl |-> 0, zscore |-> None, z_avail |-> None,
     mean_arg |-> None, reason |-> "na", close_calls |-> 0,
     close_fills |-> 0, close_error |-> FALSE, raised |-> FALSE,
     processed |-> FALSE]

\* the log of a cycle of the loop, with the state the cycle started from
CycleLog(kind) ==
    [Log(kind, current_orders # NoOrders) EXCEPT
        !.flat_before = flat(position)]

\* ------------------------------------------------------------------------
\* Init: main has not started; no table exists, the account is flat
\* ------------------------------------------------------------------------
Init ==
    /\ pc = "start"
    /\ current_orders = NoOrders
    /\ best_mean_zscore = None
    /\ df_cointegrated_pairs = <<>>
    /\ df_top50_coint = [pn \in PairNames |-> Absent]
    /\ df_mean_halflife = [pn \in PairNames |-> NoColumn]
    /\ position = [s \in Symbols |-> 0]
    /\ last = Log("init", FALSE)

\* ------------------------------------------------------------------------
\* main, lines 230-252: configuration, then the first prepare_data_files
\* ------------------------------------------------------------------------
Startup(config_ok, scan) ==
    /\ pc = "start"
    /\ LET prep == prepare_data_files(scan, df_cointegrated_pairs,
                                      df_top50_coint, df_mean_halflife)
       IN  IF ~config_ok
           THEN /\ pc' = "exited"
                /\ last' = [Log("startup", FALSE) EXCEPT !.raised = TRUE]
                /\ UNCHANGED files
           ELSE /\ pc' = IF prep.ok THEN "loop" ELSE "exited"
                /\ last' = [Log("startup", FALSE) EXCEPT
                               !.prepared = prep.ok,
                               !.processed = process_pairs_done(scan)]
                /\ df_cointegrated_pairs' = prep.cp
                /\ df_top50_coint' = prep.top
                /\ df_mean_halflife' = prep.mh
    /\ current_orders' = NoOrders
    /\ UNCHANGED <<best_mean_zscore, position>>

\* ------------------------------------------------------------------------
\* main, lines 258-329: the branch taken when current_time.minute == 1
\* ------------------------------------------------------------------------
HourlyCycle(scan, Bals, Exs) ==
    /\ pc = "loop"
    /\ LET prep == prepare_data_files(scan, df_cointegrated_pairs,
                                      df_top50_coint, df_mean_halflife)
           \* lines 270, 277, 284: an empty table ends the cycle
           empty == \/ prep.cp = <<>>
                    \/ \A pn \in PairNames : prep.mh[pn] = NoColumn
           best == find_best(prep.cp, prep.top, prep.mh, best_init)
           \* line 310 formats best_mean_zscore: None raises TypeError
           raised == best.best_mean_zscore = None
           opportunity ==
               /\ FloatLess(best.best_zscore, Num(ZSCORE_THRESHOLD))
               /\ best.best_pair # <<>>
           log0 == [CycleLog("hourly") EXCEPT
                       !.processed = process_pairs_done(scan)]
           log1 == [log0 EXCEPT !.prepared = TRUE,
                                !.best_pair = best.best_pair,
                                !.best_zscore = best.best_zscore,
                                !.opportunity = opportunity]
       IN  /\ df_cointegrated_pairs' = prep.cp
           /\ df_top50_coint' = prep.top
           /\ df_mean_halflife' = prep.mh
           /\ IF ~prep.ok \/ empty
              THEN /\ pc' = "loop"
                   /\ last' = log0
                   /\ UNCHANGED <<current_orders, best_mean_zscore,
                                  position>>
              ELSE IF raised
              THEN /\ pc' = "exited"
                   /\ last' = [log1 EXCEPT !.raised = TRUE]
                   /\ best_mean_zscore' = best.best_mean_zscore
                   /\ UNCHANGED <<current_orders, position>>
              ELSE IF ~opportunity
              THEN /\ pc' = "loop"
                   /\ last' = log1
                   /\ best_mean_zscore' = best.best_mean_zscore
                   /\ UNCHANGED <<current_orders, position>>
              ELSE \E bal \in Bals :
                   IF ~check_balance(bal)
                   THEN /\ pc' = "loop"
                        /\ last' = [log1 EXCEPT !.bal_asked = TRUE,
                                                !.bal = bal]
                        /\ best_mean_zscore' = best.best_mean_zscore
                        /\ UNCHANGED <<current_orders, position>>
                   ELSE \E ex \in Exs :
                        LET row == best.best_pair[1]
                            op  == open_positions(row.sym_1, row.sym_2,
                                       row.hedge_ratio, ex)
                            pos == fill_all(position, op.filled)
                        IN  /\ exposure(pos) <= MaxExposure
                            /\ pc' = "loop"
                            /\ current_orders' = op.orders
                            /\ best_mean_zscore' = best.best_mean_zscore
                            /\ position' = pos
                            /\ last' = [log1 EXCEPT
                                   !.bal_asked = TRUE,
                                   !.bal = bal,
                                   !.lev_calls = op.lev_calls,
                                   !.entry_calls = op.entry_calls,
                                   !.entry_fills = Len(op.filled)]

\* ------------------------------------------------------------------------
\* main, lines 331-337: the branch taken when a position is tracked
\* ------------------------------------------------------------------------
MonitorCycle(px, ohlcv, k) ==
    /\ pc = "loop"
    /\ current_orders # NoOrders
    /\ LET chk == check_positions(px, ohlcv, position, current_orders,
                                  best_mean_zscore)
           cl  == close_positions(current_orders, k)
           tracked == { current_orders[i].symbol : i \in 1..2 }
           log0 == [CycleLog("monitor") EXCEPT
                       !.px_ok = px.ok,
                       !.total_pnl = chk.total_pnl,
                       !.tracked_pnl = IF px.ok THEN SumPnl(tracked, px.pnl)
                                       ELSE 0,
                       !.zscore = chk.zscore,
                       !.z_avail = get_current_zscore(ohlcv,
                                       current_orders[1].symbol,
                                       current_orders[2].symbol,
                                       best_mean_zscore),
                       !.mean_arg = best_mean_zscore,
                       !.reason = chk.reason]
       IN  IF chk.close
           THEN /\ position' = fill_all(position, cl.filled)
                /\ current_orders' = NoOrders
                /\ last' = [log0 EXCEPT !.close_calls = cl.close_calls,
                                        !.close_fills = Len(cl.filled),
                                        !.close_error = cl.close_error]
           ELSE /\ k = 0
                /\ last' = log0
                /\ UNCHANGED <<current_orders, position>>
    /\ UNCHANGED <<pc, best_mean_zscore, files>>

\* ------------------------------------------------------------------------
\* main, lines 339-340: nothing tracked and not minute 1
\* ------------------------------------------------------------------------
IdleCycle ==
    /\ pc = "loop"
    /\ current_orders = NoOrders
    /\ last' = CycleLog("idle")
    /\ UNCHANGED <<pc, current_orders, best_mean_zscore, files, position>>

\* ------------------------------------------------------------------------
\* Inputs: what the market data, the scan and the exchange can answer
\* ------------------------------------------------------------------------
NoCols == [pn \in PairNames |-> Absent]

\* non-empty results of get_cointegrated_pairs, in any order
RowSeqs ==
    { <<r>> : r \in CandidateRows } \cup
    { <<p[1], p[2]>> : p \in { q \in CandidateRows \X CandidateRows :
                                  q[1] # q[2] } }

\* the tables process_pairs can compute for the rows: one column of Cols
\* per row, none for a pair that is not in the rows
ColsFor(rows, Cols) ==
    { c \in [PairNames -> Cols \cup {Absent}] :
        \A pn \in PairNames :
           c[pn] # Absent <=> \E i \in DOMAIN rows : pair_name(rows[i]) = pn }

\* the outcomes of one prepare_data_files, with the rows of
\* get_cointegrated_pairs drawn from Rows and the columns from Cols
Scans(Rows, Cols) ==
    { [fetch_ok |-> f, rows |-> <<>>, process_ok |-> FALSE,
       cols |-> NoCols, mean_ok |-> FALSE] : f \in BOOLEAN } \cup
    { [fetch_ok |-> TRUE, rows |-> r, process_ok |-> FALSE,
       cols |-> NoCols, mean_ok |-> m] : r \in Rows, m \in BOOLEAN } \cup
    UNION { { [fetch_ok |-> TRUE, rows |-> r, process_ok |-> TRUE,
               cols |-> c, mean_ok |-> m] :
                  c \in ColsFor(r, Cols), m \in BOOLEAN } : r \in Rows }

\* columns whose cells are all the same
ConstColumns == { [i \in 1..ColLen |-> c] : c \in ZCells }

Balances ==
    { [ok |-> FALSE, free |-> 0] } \cup
    { [ok |-> TRUE, free |-> f] : f \in {99, 100} }

Fills == {"full", "partial"}

\* the answers to one open_positions, prices from P and fills from F
EntryAnswers(P, F) ==
    { [ticker_ok |-> t, long_price |-> 10, short_price |-> 10,
       long_ok |-> FALSE, short_ok |-> FALSE,
       long_fill |-> "full", short_fill |-> "full"] : t \in BOOLEAN } \cup
    { [ticker_ok |-> TRUE, long_price |-> lp, short_price |-> 10,
       long_ok |-> TRUE, short_ok |-> FALSE,
       long_fill |-> lf, short_fill |-> "full"] :
          lp \in P, lf \in F } \cup
    { [ticker_ok |-> TRUE, long_price |-> lp, short_price |-> sp,
       long_ok |-> TRUE, short_ok |-> TRUE,
       long_fill |-> lf, short_fill |-> sf] :
          lp \in P, sp \in P, lf \in F, sf \in F }

\* the answers of fetch_positions: a flat symbol has no unrealized PnL
PositionAnswers(pos) ==
    { [ok |-> FALSE, pnl |-> [s \in Symbols |-> 0]] } \cup
    { [ok |-> TRUE, pnl |-> f] :
        f \in { g \in [Symbols -> PnLValues \cup {0}] :
                  \A s \in Symbols : pos[s] = 0 => g[s] = 0 } }

\* distances of the current z-score from the mean z-score that is compared
ZOffsets == {-(TP_BUFFER + 1), TP_BUFFER}

NoOhlcv == [ok |-> FALSE, zscore |-> NaN]

OhlcvAnswers(mean_zscore) ==
    { NoOhlcv, [ok |-> TRUE, zscore |-> NaN] } \cup
    { [ok |-> TRUE, zscore |-> Num(mean_zscore.v + d)] : d \in ZOffsets }

\* ------------------------------------------------------------------------
\* The trading loop
\* ------------------------------------------------------------------------
\* the scans of the trading loop: both pairs found, constant columns
TradeScans ==
    Scans({ r \in RowSeqs : Len(r) = 2 /\ r[1].sym_1 = "A" }, ConstColumns)

Next ==
    \/ \E config_ok \in BOOLEAN, scan \in TradeScans :
          Startup(config_ok, scan)
    \/ \E scan \in TradeScans :
          HourlyCycle(scan, Balances, EntryAnswers({10}, {"full"}))
    \/ \E px \in PositionAnswers(position) :
          \E ohlcv \in IF px.ok THEN OhlcvAnswers(best_mean_zscore)
                        ELSE {NoOhlcv} :
             \E k \in 0..2 : MonitorCycle(px, ohlcv, k)
    \/ IdleCycle

Spec == Init /\ [][Next]_vars

\* ------------------------------------------------------------------------
\* Entry evaluation on its own: the first hourly cycle after startup, with
\* the rows in any order and every column of ColLen cells
\* ------------------------------------------------------------------------
NextEntry ==
    \/ \E config_ok \in BOOLEAN, scan \in TradeScans :
          Startup(config_ok, scan)
    \/ /\ last.kind = "startup"
       /\ \E scan \in Scans(RowSeqs, Columns) :
             HourlyCycle(scan, Balances, EntryAnswers({10}, {"full"}))

SpecEntry == Init /\ [][NextEntry]_vars

\* ========================================================================
\* Properties of the trading loop
\* ========================================================================
\* the conditions of the monitor evaluation, stated on what a cycle logged
StopLossCondition(pnl) ==
    100 * pnl <= -(STOP_LOSS_PERCENT * 2 * POSITION_SIZE)

TakeProfitCondition(z, mean_z) ==
    /\ z.k = "num"
    /\ mean_z.k = "num"
    /\ z.v - mean_z.v <= TP_BUFFER
    /\ mean_z.v - z.v <= TP_BUFFER

InLoopCycle == last.kind \in {"hourly", "monitor", "idle"}

\* C1: entry orders are never submitted while the account still holds legs
\* of an earlier entry, so two positions are never open at the same time.
C1_OneOpenPosition ==
    (last.kind = "hourly" /\ last.entry_calls > 0) => last.flat_before

\* C2: a cycle that starts with a tracked position selects no candidate,
\* submits no entry order, and leaves the tracked position (unless the
\* monitor closes it) and its mean z-score unchanged.
C2_EntrySkippedWhileTracked ==
    [][current_orders # NoOrders =>
          /\ last'.best_pair = <<>>
          /\ last'.entry_calls = 0
          /\ best_mean_zscore' = best_mean_zscore
          /\ (current_orders' = current_orders \/ last'.kind = "monitor")]_vars

\* C3: when a close order fails the position stays tracked (CLOSING) for a
\* retry; it is not dropped while a leg is still open.
C3_CloseErrorKeepsPosition ==
    (last.kind = "monitor" /\ last.close_error) => current_orders # NoOrders

\* C4: in a monitor cycle where the stop-loss condition holds the position
\* is closed via stop-loss, whether the take-profit condition holds as well
\* or the z-score cannot be computed at all.
C4_StopLossFirst ==
    (last.kind = "monitor" /\ last.px_ok /\ StopLossCondition(last.total_pnl))
        => /\ last.reason = "stop_loss"
           /\ last.close_calls > 0
           /\ current_orders = NoOrders

C4_Witness ==
    /\ last.kind = "monitor"
    /\ last.px_ok
    /\ StopLossCondition(last.total_pnl)
    /\ TakeProfitCondition(last.z_avail, last.mean_arg)
    /\ last.reason = "stop_loss"

\* C5: in a monitor cycle the stop-loss closes the position whenever the
\* unrealized PnL of the two tracked legs is at or below the threshold.
C5_StopLossOnTrackedLegs ==
    (last.kind = "monitor" /\ last.px_ok
        /\ StopLossCondition(last.tracked_pnl))
        => last.reason = "stop_loss"

\* C6: whatever a cycle of the loop finds, the loop goes on to its next
\* cycle.
C6_LoopNeverTerminates == InLoopCycle => pc = "loop"

\* C7: while a position is tracked the loop is alive, so that its monitor
\* step runs again after any scan.
C7_OpenPositionStaysMonitored == current_orders # NoOrders => pc = "loop"

\* C9: an entry attempt whose balance check fails (margin below
\* 2 x POSITION_SIZE, or no answer) makes no leverage call, submits no
\* order, changes neither the tracked orders nor the account, and the loop
\* goes on.
C9_LowBalanceSkipsEntry ==
    [][(last'.kind = "hourly" /\ last'.bal_asked
          /\ (~last'.bal.ok \/ last'.bal.free < 2 * POSITION_SIZE))
       => /\ last'.lev_calls = 0
          /\ last'.entry_calls = 0
          /\ current_orders' = current_orders
          /\ position' = position
          /\ pc' = "loop"]_vars

C9_Witness ==
    /\ last.kind = "hourly"
    /\ last.bal_asked
    /\ last.bal.ok
    /\ last.bal.free = 2 * POSITION_SIZE - 1
    /\ last.opportunity
    /\ current_orders = NoOrders
    /\ pc = "loop"

Defined(i) ==
    LET pn == pair_name(df_cointegrated_pairs[i])
    IN  /\ df_top50_coint[pn] # Absent
        /\ df_mean_halflife[pn] # NoColumn
        /\ df_top50_coint[pn][ColLen].k = "num"
        /\ df_mean_halflife[pn].k = "num"

Candidates == { i \in DOMAIN df_cointegrated_pairs : Defined(i) }

CurrentZ(i) == df_top50_coint[pair_name(df_cointegrated_pairs[i])][ColLen].v

\* C8: entry evaluation selects, among the rows with a defined z-score and
\* a defined mean z-score, one with the most negative z-score; it finds an
\* opportunity iff that minimum is strictly below ZSCORE_THRESHOLD, and
\* calls open_positions iff there is an opportunity and the balance
\* suffices; the selected pair never has an undefined z-score or mean.
C8_SelectsMostNegative ==
    (last.kind = "hourly" /\ last.prepared) =>
        /\ Candidates = {} =>
              /\ last.best_pair = <<>>
              /\ ~last.opportunity
        /\ Candidates # {} =>
              \E i \in Candidates :
                 /\ last.best_pair = <<df_cointegrated_pairs[i]>>
                 /\ \A j \in Candidates : CurrentZ(i) <= CurrentZ(j)
                 /\ last.best_zscore = Num(CurrentZ(i))
                 /\ best_mean_zscore =
                       df_mean_halflife[pair_name(df_cointegrated_pairs[i])]
                 /\ last.opportunity <=> CurrentZ(i) < ZSCORE_THRESHOLD
        /\ last.lev_calls > 0 <=>
              /\ last.opportunity
              /\ last.bal_asked /\ last.bal.ok
              /\ last.bal.free >= 2 * POSITION_SIZE
        /\ last.entry_calls > 0 => last.lev_calls > 0

C8_Witness ==
    /\ last.kind = "hourly"
    /\ last.prepared
    /\ Candidates = {1, 2}
    /\ CurrentZ(2) < CurrentZ(1)
    /\ last.best_pair = <<df_cointegrated_pairs[2]>>
    /\ last.opportunity
    /\ last.entry_fills = 2
    /\ current_orders # NoOrders

\* ========================================================================
\* One position from entry to close, through each entry point
\* ========================================================================
\* func_trades_zscore.main, execution_halflife.main,
\* func_exec_mean_zscore.main and manual_execution.main
EntryPoints ==
    {"func_trades_zscore", "execution_halflife", "func_exec_mean_zscore",
     "manual_execution"}

\* the two create_order calls of place_orders, after the prices were read
submit_orders(long_pair, short_pair, long_amount, short_amount, ex) ==
    LET long_quantity  == long_amount \div ex.long_price
        short_quantity == short_amount \div ex.short_price
        long_order  == Order(long_pair, "buy", long_quantity,
                             filled_of(long_quantity, ex.long_fill))
        short_order == Order(short_pair, "sell", short_quantity,
                             filled_of(short_quantity, ex.short_fill))
    IN  IF ~ex.ticker_ok
        THEN [orders |-> NoOrders, filled |-> <<>>, lev_calls |-> 0,
              entry_calls |-> 0]
        ELSE IF ~ex.long_ok
        THEN [orders |-> NoOrders, filled |-> <<>>, lev_calls |-> 0,
              entry_calls |-> 1]
        ELSE IF ~ex.short_ok
        THEN [orders |-> NoOrders, filled |-> <<long_order>>,
              lev_calls |-> 0, entry_calls |-> 2]
        ELSE [orders |-> <<long_order, short_order>>,
              filled |-> <<long_order, short_order>>,
              lev_calls |-> 0, entry_calls |-> 2]

\* nothing was submitted: the return value is None or []
NotSubmitted ==
    [orders |-> NoOrders, filled |-> <<>>, lev_calls |-> 0, entry_calls |-> 0]

\* place_orders(long_pair, short_pair, long_amount, short_amount) of
\* execution_halflife.py and of func_exec_mean_zscore.py
place_orders(long_pair, short_pair, long_amount, short_amount, bal, ex) ==
    IF ~bal.ok THEN NotSubmitted
    ELSE IF long_amount + short_amount > bal.free THEN NotSubmitted
    ELSE submit_orders(long_pair, short_pair, long_amount, short_amount, ex)

\* place_orders(long_pair, short_pair, percentage) of manual_execution.py
manual_place_orders(long_pair, short_pair, percentage, bal, ex) ==
    LET futures_trade_amount == (percentage * bal.free) \div 100
    IN  IF ~bal.ok THEN NotSubmitted
        ELSE IF futures_trade_amount > bal.free THEN NotSubmitted
        ELSE submit_orders(long_pair, short_pair, futures_trade_amount,
                           futures_trade_amount, ex)

opposite(side) == IF side = "buy" THEN "sell" ELSE "buy"

\* a call that closes: create_order(type='market', ...) or cancel_order
CloseRequest(type, symbol, side, amount, reduceOnly) ==
    [type |-> type, symbol |-> symbol, side |-> side, amount |-> amount,
     reduceOnly |-> reduceOnly]

\* the create_order calls of close_positions of func_trades_zscore.py
trades_close_requests(orders) ==
    [i \in DOMAIN orders |->
        CloseRequest("market", close_order(orders[i]).symbol,
                     close_order(orders[i]).side,
                     close_order(orders[i]).amount, FALSE)]

\* close_positions(orders) of execution_halflife.py
halflife_close_positions(orders) ==
    [i \in DOMAIN orders |->
        CloseRequest("market", orders[i].symbol, opposite(orders[i].side),
                     orders[i].filled, TRUE)]

\* close_orders(orders) of func_exec_mean_zscore.py
exec_mean_close_orders(orders) ==
    [i \in DOMAIN orders |->
        CloseRequest("cancel", orders[i].symbol, "none", 0, FALSE)]

\* close_orders(orders) of manual_execution.py
manual_close_orders(orders) ==
    [i \in DOMAIN orders |->
        CloseRequest("market", orders[i].symbol, opposite(orders[i].side),
                     orders[i].amount, FALSE)]

close_requests(entry_point, orders) ==
    CASE entry_point = "func_trades_zscore" -> trades_close_requests(orders)
      [] entry_point = "execution_halflife" -> halflife_close_positions(orders)
      [] entry_point = "func_exec_mean_zscore" -> exec_mean_close_orders(orders)
      [] entry_point = "manual_execution" -> manual_close_orders(orders)

\* the exchange's answer to a close request.  A cancel of an entry order
\* finds nothing to cancel (a market order is never left open) and moves no
\* position; a reduce-only order fills at most what is held on the side it
\* reduces and is rejected when nothing is held; a plain order fills.
execute(pos, req) ==
    LET held == IF req.side = "sell" THEN pos[req.symbol]
                ELSE -pos[req.symbol]
        fill == IF req.amount < held THEN req.amount ELSE held
    IN  IF req.type = "cancel" THEN [ok |-> FALSE, pos |-> pos]
        ELSE IF ~req.reduceOnly
        THEN [ok |-> TRUE,
              pos |-> apply_order(pos, Order(req.symbol, req.side,
                                             req.amount, req.amount))]
        ELSE IF held <= 0 THEN [ok |-> FALSE, pos |-> pos]
        ELSE [ok |-> TRUE,
              pos |-> apply_order(pos, Order(req.symbol, req.side,
                                             req.amount, fill))]

\* the loop of a close function: the requests are sent in order, the first
\* call that raises ends the loop (the exception is printed).  k: the calls
\* that reach the exchange before the connection fails.
RECURSIVE run_close(_, _, _)
run_close(pos, reqs, k) ==
    IF reqs = <<>>
    THEN [pos |-> pos, sent |-> <<>>, close_error |-> FALSE]
    ELSE IF k = 0 \/ ~execute(pos, Head(reqs)).ok
    THEN [pos |-> pos, sent |-> <<Head(reqs)>>, close_error |-> TRUE]
    ELSE LET rest == run_close(execute(pos, Head(reqs)).pos, Tail(reqs),
                               k - 1)
         IN  [pos |-> rest.pos, sent |-> <<Head(reqs)>> \o rest.sent,
              close_error |-> rest.close_error]

\* the dollar amounts and the percentage the user types
Amounts == {POSITION_SIZE}

Percentages == {50}

\* set_leverage(binance_futures, symbol, leverage): True when the exchange
\* accepted the call, False when it raised
set_leverage(accepted) == IF accepted THEN TRUE ELSE FALSE

\* what the exchange answers to the two set_leverage calls of an entry
LeverageAnswers == [long_ok : BOOLEAN, short_ok : BOOLEAN]

\* an entry point opens its position from a flat account
EnterPosition(entry_point, row, bal, lev, ex) ==
    /\ pc = "start"
    /\ LET \* lines 66-67: the results of set_leverage are not looked at
           leverage_set ==
             IF entry_point = "func_trades_zscore" /\ check_balance(bal)
             THEN <<set_leverage(lev.long_ok), set_leverage(lev.short_ok)>>
             ELSE <<>>
           op ==
             CASE entry_point = "func_trades_zscore" ->
                    IF check_balance(bal)
                    THEN open_positions(row.sym_1, row.sym_2,
                                        row.hedge_ratio, ex)
                    ELSE NotSubmitted
               [] entry_point = "manual_execution" ->
                    manual_place_orders(row.sym_1, row.sym_2,
                        CHOOSE p \in Percentages : TRUE, bal, ex)
               [] OTHER ->
                    place_orders(row.sym_1, row.sym_2,
                        CHOOSE a \in Amounts : TRUE,
                        CHOOSE a \in Amounts : TRUE, bal, ex)
       IN  /\ current_orders' = op.orders
           /\ position' = fill_all(position, op.filled)
           /\ pc' = IF op.orders # NoOrders THEN "open" ELSE "done"
           /\ last' = [kind |-> "enter", entry_point |-> entry_point,
                       row |-> row, bal |-> bal,
                       long_price |-> ex.long_price,
                       short_price |-> ex.short_price,
                       leverage_set |-> leverage_set,
                       entry_calls |-> op.entry_calls,
                       accepted |-> op.filled, orders |-> op.orders,
                       sent |-> <<>>, close_error |-> FALSE,
                       before |-> position]
    /\ UNCHANGED <<best_mean_zscore, files>>

\* the entry point closes the orders it placed
ClosePosition(k) ==
    /\ pc = "open"
    /\ LET reqs == close_requests(last.entry_point, current_orders)
           res  == run_close(position, reqs, k)
       IN  /\ position' = res.pos
           /\ last' = [last EXCEPT !.kind = "close",
                                   !.orders = current_orders,
                                   !.sent = res.sent,
                                   !.close_error = res.close_error,
                                   !.before = position]
    /\ pc' = "done"
    /\ current_orders' = NoOrders
    /\ UNCHANGED <<best_mean_zscore, files>>

\* ------------------------------------------------------------------------
\* Startup of the programs when config.ini has no API key or secret
\* ------------------------------------------------------------------------
\* the programs that read the credentials: the four entry points that trade
\* and the market-data fetcher of func_get_prices.py
Programs == EntryPoints \cup {"func_get_prices"}

\* nothing was done before the program stopped
Stopped == [started |-> FALSE, market_calls |-> 0, scans |-> 0,
            entry_calls |-> 0]

\* what a program does when the key or the secret is absent; markets is
\* the number of USDT perpetual symbols load_markets gives.
\*  func_trades_zscore: config.get without fallback raises (lines 236-237)
\*  execution_halflife, func_exec_mean_zscore: ValueError (lines 18-19)
\*  manual_execution: NameError on line 5
\*  func_get_prices: _load_config falls back to None (lines 40-41), the
\*    exchange object is built with apiKey None and load_markets and
\*    fetch_ohlcv, which need no key, are called
startup_without_credentials(program, markets) ==
    IF program = "func_get_prices"
    THEN [started |-> TRUE, market_calls |-> 1 + markets, scans |-> 0,
          entry_calls |-> 0]
    ELSE Stopped

\* a program is started with no credentials in config.ini
StartWithoutCredentials(program, markets) ==
    /\ pc = "start"
    /\ pc' = "done"
    /\ last' = [kind |-> "no_credentials", entry_point |-> program,
                run |-> startup_without_credentials(program, markets)]
    /\ UNCHANGED <<current_orders, best_mean_zscore, files, position>>

NextLifecycle ==
    \/ \E entry_point \in EntryPoints, row \in CandidateRows,
          bal \in Balances, lev \in LeverageAnswers,
          ex \in EntryAnswers(Prices, Fills) :
          EnterPosition(entry_point, row, bal, lev, ex)
    \/ \E k \in 0..2 : ClosePosition(k)
    \/ \E program \in Programs, markets \in 0..2 :
          StartWithoutCredentials(program, markets)

SpecLifecycle == Init /\ [][NextLifecycle]_vars

\* ========================================================================
\* Properties of entry and close
\* ========================================================================
\* C11: every call that closes a position is a reduce-only market order on
\* the side opposite to the entry order (never a plain order, never a
\* cancellation), and a close never increases the position held in a symbol.
C11_CloseReduceOnly ==
    last.kind = "close" =>
        /\ \A i \in DOMAIN last.sent :
              /\ last.sent[i].type = "market"
              /\ last.sent[i].reduceOnly
              /\ last.sent[i].side = opposite(last.orders[i].side)
        /\ \A s \in Symbols :
              contracts(position, s) <= contracts(last.before, s)

\* C12: each leg is closed with the quantity the exchange reported as filled
\* for its entry order, so that after a close without error the position of
\* each leg is exactly zero.
C12_CloseAtFilledQuantity ==
    (last.kind = "close" /\ ~last.close_error) =>
        \A i \in DOMAIN last.orders :
           /\ last.sent[i].amount = last.orders[i].filled
           /\ position[last.orders[i].symbol] = 0

\* C13: open_positions buys the first symbol of the pair and sells the
\* second, each with the quantity POSITION_SIZE / price of its own symbol,
\* whatever the prices and the hedge ratio are.
C13_EqualNotional ==
    (last.kind = "enter" /\ last.entry_point = "func_trades_zscore") =>
        \A i \in DOMAIN last.accepted :
           LET o == last.accepted[i]
           IN  IF i = 1
               THEN /\ o.symbol = last.row.sym_1
                    /\ o.side = "buy"
                    /\ o.amount * last.long_price = POSITION_SIZE
               ELSE /\ o.symbol = last.row.sym_2
                    /\ o.side = "sell"
                    /\ o.amount * last.short_price = POSITION_SIZE

C13_Witness ==
    /\ last.kind = "enter"
    /\ last.entry_point = "func_trades_zscore"
    /\ Len(last.accepted) = 2
    /\ last.long_price = 10
    /\ last.short_price = 25
    /\ last.row.hedge_ratio = 3
    /\ last.accepted[1].amount = 5
    /\ last.accepted[2].amount = 2

\* C14: an entry attempt from the state NONE in which an order submission
\* fails is aborted: nothing is tracked afterwards and the loop goes on.
C14_EntryFailureAborts ==
    (last.kind = "hourly" /\ ~last.had_orders
        /\ last.entry_calls > last.entry_fills)
        => /\ current_orders = NoOrders
           /\ pc = "loop"

C14_Witness ==
    /\ last.kind = "hourly"
    /\ ~last.had_orders
    /\ last.entry_calls = 2
    /\ last.entry_fills = 1
    /\ current_orders = NoOrders
    /\ pc = "loop"

\* ========================================================================
\* The scanner: get_cointegrated_pairs of func_cointegration_daily.py
\* ========================================================================
\* the largest zero_crossings a pair of the table has
MaxZeroCrossings == 2

\* column names of close_df, as sequences of characters
ScanNames == { <<"A", "B">>, <<"A", "B", "A">>, <<"B", "A">> }

\* the order of characters in a Python str comparison
CharRank(c) == IF c = "A" THEN 1 ELSE 2

\* sym_a < sym_b for Python strings
RECURSIVE NameLess(_, _)
NameLess(a, b) ==
    IF a = <<>> THEN b # <<>>
    ELSE IF b = <<>> THEN FALSE
    ELSE IF Head(a) = Head(b) THEN NameLess(Tail(a), Tail(b))
    ELSE CharRank(Head(a)) < CharRank(Head(b))

\* "".join(sorted([sym1, sym2])) of line 110
unique_key(sym1, sym2) ==
    IF NameLess(sym2, sym1) THEN sym2 \o sym1 ELSE sym1 \o sym2

\* the pairs (i, j) the two loops of lines 92-93 visit
PairIndex(n) == { ij \in (1..n) \X (1..n) : ij[1] < ij[2] }

\* what the aligned series of a pair give: p_value in 1/1000, coint_t and
\* critical_value in 1/100
PValues == {496, 500}

TValues == {-301, -300}

CriticalValues == {-300}

\* pair_df.empty (line 99), an exception of coint or OLS, or a test result
PairOutcomes ==
    { [kind |-> "empty", p_value |-> 0, coint_t |-> 0, critical_value |-> 0,
       hedge_ratio |-> 0, zero_crossings |-> 0],
      [kind |-> "error", p_value |-> 0, coint_t |-> 0, critical_value |-> 0,
       hedge_ratio |-> 0, zero_crossings |-> 0] } \cup
    { [kind |-> "test", p_value |-> pv, coint_t |-> t, critical_value |-> c,
       hedge_ratio |-> 100, zero_crossings |-> z] :
         pv \in PValues, t \in TValues, c \in CriticalValues,
         z \in 1..MaxZeroCrossings }

\* the column orders of a table: the arrangements of a set of names
Arrangements(S) ==
    { q \in [1..Cardinality(S) -> S] :
        \A i, j \in 1..Cardinality(S) : i # j => q[i] # q[j] }

\* the tables get_cointegrated_pairs is called with
CloseDfs ==
    UNION { { [symbols |-> q, data |-> d] :
                q \in Arrangements(S),
                d \in [PairIndex(Cardinality(S)) -> PairOutcomes] } :
            S \in (SUBSET ScanNames) \ {{}} }

\* calculate_cointegration: the flag is set from the values of the test,
\* the values returned are rounded to 2 decimals
calculate_cointegration(o) ==
    [coint_flag |-> IF o.p_value < 500 /\ o.coint_t < o.critical_value
                    THEN 1 ELSE 0,
     p_value |-> RoundHalfEven(o.p_value, 10),
     t_value |-> o.coint_t,
     c_value |-> o.critical_value,
     hedge_ratio |-> o.hedge_ratio,
     zero_crossings |-> o.zero_crossings]

\* the loops of lines 92-126 visiting every ordered pair, without the
\* included_list
RECURSIVE scan_pairs_all_orders(_, _, _, _, _)
scan_pairs_all_orders(close_df, i, j, included_list, coint_pair_list) ==
    LET n == Len(close_df.symbols)
    IN  IF i > n THEN coint_pair_list
        ELSE IF j > n
        THEN scan_pairs_all_orders(close_df, i + 1, 1, included_list,
                                   coint_pair_list)
        ELSE IF i = j
        THEN scan_pairs_all_orders(close_df, i, j + 1, included_list,
                                   coint_pair_list)
        ELSE
          LET sym1 == close_df.symbols[i]
              sym2 == close_df.symbols[j]
              o    == close_df.data[IF i < j THEN <<i, j>> ELSE <<j, i>>]
              res  == calculate_cointegration(o)
              take == o.kind = "test" /\ res.coint_flag = 1
          IN  scan_pairs_all_orders(close_df, i, j + 1, included_list,
                 IF take
                 THEN Append(coint_pair_list,
                        [sym_1 |-> sym1, sym_2 |-> sym2,
                         p_value |-> res.p_value, t_value |-> res.t_value,
                         c_value |-> res.c_value,
                         hedge_ratio |-> res.hedge_ratio,
                         zero_crossings |-> res.zero_crossings])
                 ELSE coint_pair_list)

\* the loops of lines 92-126: an empty pair is skipped, an exception is
\* caught and printed, a flagged pair is appended unless its key is in
\* included_list
RECURSIVE scan_pairs(_, _, _, _, _)
scan_pairs(close_df, i, j, included_list, coint_pair_list) ==
    LET n == Len(close_df.symbols)
    IN  IF i > n THEN coint_pair_list
        ELSE IF j > n
        THEN scan_pairs(close_df, i + 1, i + 2, included_list,
                        coint_pair_list)
        ELSE
          LET sym1 == close_df.symbols[i]
              sym2 == close_df.symbols[j]
              o    == close_df.data[<<i, j>>]
              res  == calculate_cointegration(o)
              unique == unique_key(sym1, sym2)
              take == /\ o.kind = "test"
                      /\ res.coint_flag = 1
                      /\ unique \notin included_list
          IN  scan_pairs(close_df, i, j + 1,
                 IF take THEN included_list \cup {unique} ELSE included_list,
                 IF take
                 THEN Append(coint_pair_list,
                        [sym_1 |-> sym1, sym_2 |-> sym2,
                         p_value |-> res.p_value, t_value |-> res.t_value,
                         c_value |-> res.c_value,
                         hedge_ratio |-> res.hedge_ratio,
                         zero_crossings |-> res.zero_crossings])
                 ELSE coint_pair_list)

\* df_coint.sort_values("zero_crossings", ascending=False): the default
\* kind is quicksort, which is not stable, so rows with equal
\* zero_crossings come out in an order the build decides
sort_values(rows) ==
    { [i \in DOMAIN rows |-> rows[q[i]]] : q \in
        { f \in Arrangements(DOMAIN rows) :
            \A i, k \in DOMAIN rows :
               i < k => rows[f[i]].zero_crossings >= rows[f[k]].zero_crossings } }

\* the scanner is called with a table
InitScan ==
    /\ pc = "scan"
    /\ current_orders = NoOrders
    /\ best_mean_zscore = None
    /\ df_cointegrated_pairs = <<>>
    /\ df_top50_coint = [pn \in PairNames |-> Absent]
    /\ df_mean_halflife = [pn \in PairNames |-> NoColumn]
    /\ position = [s \in Symbols |-> 0]
    /\ \E close_df \in CloseDfs :
          last = [kind |-> "close_df", close_df |-> close_df,
                  coint_pair_list |-> <<>>]

\* get_cointegrated_pairs(close_df)
GetCointegratedPairs ==
    /\ pc = "scan"
    /\ LET coint_pair_list == scan_pairs(last.close_df, 1, 2, {}, <<>>)
       IN  /\ df_cointegrated_pairs' \in sort_values(coint_pair_list)
           /\ last' = [kind |-> "scan", close_df |-> last.close_df,
                       coint_pair_list |-> coint_pair_list]
    /\ pc' = "scanned"
    /\ UNCHANGED <<current_orders, best_mean_zscore, df_top50_coint,
                   df_mean_halflife, position>>

NextScan == GetCointegratedPairs

SpecScan == InitScan /\ [][NextScan]_vars

\* ========================================================================
\* Properties of the scanner
\* ========================================================================
\* the pair of column positions i < j qualifies by its test
Qualifies(o) ==
    /\ o.kind = "test"
    /\ o.p_value < 500
    /\ o.coint_t < o.critical_value

\* the output has a row for the unordered pair of names {a, b}
InOutput(a, b) ==
    \E r \in DOMAIN df_cointegrated_pairs :
       {df_cointegrated_pairs[r].sym_1, df_cointegrated_pairs[r].sym_2}
          = {a, b}

\* C15: every row of the scanner's output has sym_1 < sym_2, whatever the
\* order of the columns of the input table is.
C15_CanonicalOrder ==
    last.kind = "scan" =>
        \A r \in DOMAIN df_cointegrated_pairs :
           NameLess(df_cointegrated_pairs[r].sym_1,
                    df_cointegrated_pairs[r].sym_2)

\* C16: no two rows of the scanner's output are the same unordered pair of
\* symbols.
C16_NoDuplicatePair ==
    last.kind = "scan" =>
        \A r, q \in DOMAIN df_cointegrated_pairs :
           r # q =>
              {df_cointegrated_pairs[r].sym_1, df_cointegrated_pairs[r].sym_2}
                 # {df_cointegrated_pairs[q].sym_1,
                    df_cointegrated_pairs[q].sym_2}

C16_Witness ==
    /\ last.kind = "scan"
    /\ Len(last.close_df.symbols) = 3
    /\ Len(df_cointegrated_pairs) = 2
    /\ df_cointegrated_pairs[1].sym_1 = last.close_df.symbols[1]
    /\ df_cointegrated_pairs[2].sym_1 = last.close_df.symbols[1]
    /\ df_cointegrated_pairs[1].sym_2 # df_cointegrated_pairs[2].sym_2

\* C17: a pair of the table is in the output iff its test gives
\* p_value < 0.5 and test_stat < critical_value.
C17_InclusionRule ==
    last.kind = "scan" =>
        \A ij \in PairIndex(Len(last.close_df.symbols)) :
           Qualifies(last.close_df.data[ij])
              <=> InOutput(last.close_df.symbols[ij[1]],
                           last.close_df.symbols[ij[2]])

\* C18: the output is the list of included pairs sorted descending by
\* zero_crossings, rows with equal zero_crossings in the order the pairs
\* were enumerated.
C18_StableSort ==
    last.kind = "scan" =>
        /\ \A i, k \in DOMAIN df_cointegrated_pairs :
              i < k => df_cointegrated_pairs[i].zero_crossings
                          >= df_cointegrated_pairs[k].zero_crossings
        /\ \E f \in Arrangements(DOMAIN last.coint_pair_list) :
              /\ df_cointegrated_pairs =
                    [i \in DOMAIN last.coint_pair_list |->
                        last.coint_pair_list[f[i]]]
              /\ \A i, k \in DOMAIN last.coint_pair_list :
                    (i < k /\ last.coint_pair_list[f[i]].zero_crossings
                                = last.coint_pair_list[f[k]].zero_crossings)
                       => f[i] < f[k]

\* C19: when the computation of a pair raises, every other pair is still
\* processed: each other pair that qualifies is in the output.
C19_PairErrorSkipped ==
    last.kind = "scan" =>
        \A e \in PairIndex(Len(last.close_df.symbols)) :
           last.close_df.data[e].kind = "error" =>
              \A ij \in PairIndex(Len(last.close_df.symbols)) \ {e} :
                 Qualifies(last.close_df.data[ij])
                    => InOutput(last.close_df.symbols[ij[1]],
                                last.close_df.symbols[ij[2]])

\* ========================================================================
\* Properties of the persisted tables
\* ========================================================================
\* C20: after a scan that prepare_data_files reports as successful the
\* three tables are those of that scan: process_pairs wrote the z-score
\* table in this scan, its columns are the pairs of the candidate table, and
\* the mean table is computed from it.
C20_TablesReplaced ==
    (last.kind \in {"startup", "hourly"} /\ last.prepared) =>
        /\ last.processed
        /\ \A pn \in PairNames :
              df_top50_coint[pn] # Absent <=>
                 \E i \in DOMAIN df_cointegrated_pairs :
                    pair_name(df_cointegrated_pairs[i]) = pn
        /\ df_mean_halflife = compute_mean_and_halflife(df_top50_coint)

\* ========================================================================
\* Properties of the dedup key
\* ========================================================================
\* C29: two different unordered pairs of columns that qualify have different
\* dedup keys, and every pair whose test qualifies has exactly one row in
\* the output.
C29_DistinctKeys ==
    last.kind = "scan" =>
        LET sym == last.close_df.symbols
            idx == PairIndex(Len(sym))
        IN  /\ \A ij, kl \in idx :
                  (/\ ij # kl
                   /\ Qualifies(last.close_df.data[ij])
                   /\ Qualifies(last.close_df.data[kl]))
                     => unique_key(sym[ij[1]], sym[ij[2]])
                           # unique_key(sym[kl[1]], sym[kl[2]])
            /\ \A ij \in idx :
                  Qualifies(last.close_df.data[ij]) =>
                     Cardinality({ r \in DOMAIN df_cointegrated_pairs :
                        {df_cointegrated_pairs[r].sym_1,
                         df_cointegrated_pairs[r].sym_2}
                           = {sym[ij[1]], sym[ij[2]]} }) = 1

\* ========================================================================
\* A position held over several cycles: the trading loop with scans whose
\* mean z-scores differ and with current z-scores on both sides of the mean
\* ========================================================================
\* constant z-score columns below and at the entry threshold
HoldColumns == { [i \in 1..ColLen |-> Num(z)] : z \in {-20000, ZSCORE_THRESHOLD} }

\* scans that find both pairs, in the order (A, B), (B, C)
HoldScans ==
    Scans({ r \in RowSeqs : Len(r) = 2 /\ r[1].sym_1 = "A" }, HoldColumns)

\* fetch_positions answers with no unrealized PnL: no stop-loss
HoldPositions == { [ok |-> TRUE, pnl |-> [s \in Symbols |-> 0]] }

\* distances of the current z-score from the mean it is compared with:
\* outside the buffer below, inside it, and outside the buffer above
HoldOffsets == {-(TP_BUFFER + 1), TP_BUFFER, TP_BUFFER + 1}

HoldOhlcv(mean_zscore) ==
    { [ok |-> TRUE, zscore |-> Num(mean_zscore.v + d)] : d \in HoldOffsets }

\* one monitor cycle of the loop in which every call succeeds
MonitorStep ==
    \E px \in HoldPositions, ohlcv \in HoldOhlcv(best_mean_zscore) :
       MonitorCycle(px, ohlcv, 0)

NextHold ==
    \/ \E config_ok \in BOOLEAN, scan \in HoldScans :
          Startup(config_ok, scan)
    \/ \E scan \in HoldScans :
          HourlyCycle(scan, Balances, EntryAnswers({10}, {"full"}))
    \/ MonitorStep
    \/ IdleCycle

SpecHold == Init /\ [][NextHold]_vars

\* ========================================================================
\* Properties of the entry mean z-score
\* ========================================================================
\* C27: while a position stays tracked the mean z-score it was entered with
\* does not change: no cycle that keeps current_orders and leaves the loop
\* running changes best_mean_zscore, the value the take-profit check
\* compares against.
C27_EntryMeanFixed ==
    [][(/\ current_orders # NoOrders
        /\ current_orders' = current_orders
        /\ pc' = "loop")
          => best_mean_zscore' = best_mean_zscore]_vars

\* ========================================================================
\* Liveness of the exit: the loop with fair scheduling of monitor cycles
\* ========================================================================
\* the loop runs an iteration every minute, and an iteration with a tracked
\* position outside minute 1 is a monitor cycle
SpecHoldFair == SpecHold /\ WF_vars(MonitorStep)

\* two consecutive monitor cycles of a tracked position whose current
\* z-scores are on different sides of the entry mean z-score, or the later
\* one on it
CrossStep ==
    /\ last.kind = "monitor"
    /\ last'.kind = "monitor"
    /\ last.reason = "hold"
    /\ best_mean_zscore.k = "num"
    /\ last.zscore.k = "num"
    /\ last'.zscore.k = "num"
    /\ (last.zscore.v - best_mean_zscore.v)
          * (last'.zscore.v - best_mean_zscore.v) <= 0

\* C30: a tracked position whose current z-score keeps crossing its entry
\* mean z-score from one monitor cycle to the next, with no stop-loss and
\* fair scheduling of monitor cycles, does not stay tracked for ever: either
\* the crossings stop or the position is closed (current_orders is None).
C30_MeanRevertingClosed ==
    <>[][~CrossStep]_vars \/ []<>(current_orders = NoOrders)

\* ========================================================================
\* Properties of an entry attempt
\* ========================================================================
\* C28: after an entry attempt made from a flat account with nothing
\* tracked, either both legs were filled and the orders are tracked, or the
\* account is still flat: no leg is open on the exchange while
\* current_orders is None.
C28_EntryAtomic ==
    (/\ last.kind = "hourly"
     /\ ~last.had_orders
     /\ last.flat_before
     /\ last.lev_calls > 0)
       => \/ current_orders # NoOrders /\ last.entry_fills = 2
          \/ flat(position)

\* ========================================================================
\* Properties of the leverage setting
\* ========================================================================
\* C24: an entry attempt of the trading loop submits an entry order only
\* after set_leverage succeeded on both the long and the short symbol.
C24_LeverageSetBeforeEntry ==
    (/\ last.kind = "enter"
     /\ last.entry_point = "func_trades_zscore"
     /\ last.entry_calls > 0)
       => last.leverage_set = <<TRUE, TRUE>>

\* ========================================================================
\* Properties of the startup
\* ========================================================================
\* C23: a program started without API key or secret stops at startup: it
\* makes no market-data call, runs no scan and submits no order.
C23_NoCredentialsNoOperation ==
    last.kind = "no_credentials" =>
        /\ ~last.run.started
        /\ last.run.market_calls = 0
        /\ last.run.scans = 0
        /\ last.run.entry_calls = 0
        /\ flat(position)

\* ========================================================================
\* The market-data fetcher: the loop of fetch_and_process_data of
\* func_get_prices.py
\* ========================================================================
\* the largest number of symbols in usdt_pairs
MaxSymbols == 3

\* fetch_ohlcv returns candles or raises one of the exceptions of lines
\* 99-106
FetchOutcomes ==
    {"ok", "BadSymbol", "NetworkError", "ExchangeError", "Exception"}

\* one iteration of the loop of lines 75-106, as the calls it makes: the
\* exchange object is built without 'enableRateLimit' (lines 45-51), so the
\* throttle of the library runs before a request only if the installed
\* library enables it by default; time.sleep(rateLimit / 1000) of line 97
\* is inside the try, after the call returned.  BadSymbol is raised by the
\* library for a symbol it does not know, before a request is sent.
fetch_symbol(outcome, enableRateLimit) ==
    IF outcome = "BadSymbol" THEN <<>>
    ELSE (IF enableRateLimit THEN <<"throttle">> ELSE <<>>)
            \o <<"fetch_ohlcv">>
            \o (IF outcome = "ok" THEN <<"sleep">> ELSE <<>>)

\* fetch_and_process_data is called with usdt_pairs of 1..MaxSymbols symbols
InitFetch ==
    /\ pc = "fetch"
    /\ current_orders = NoOrders
    /\ best_mean_zscore = None
    /\ df_cointegrated_pairs = <<>>
    /\ df_top50_coint = [pn \in PairNames |-> Absent]
    /\ df_mean_halflife = [pn \in PairNames |-> NoColumn]
    /\ position = [s \in Symbols |-> 0]
    /\ \E n \in 1..MaxSymbols, e \in BOOLEAN :
          last = [kind |-> "fetch", total_pairs |-> n, enableRateLimit |-> e,
                  all_data |-> <<>>, outcomes |-> <<>>, calls |-> <<>>]

\* the iteration of the loop for the next symbol
FetchSymbol(outcome) ==
    /\ pc = "fetch"
    /\ Len(last.outcomes) < last.total_pairs
    /\ last' = [last EXCEPT
                  !.outcomes = Append(@, outcome),
                  !.all_data = IF outcome = "ok"
                               THEN Append(@, Len(last.outcomes) + 1)
                               ELSE @,
                  !.calls = @ \o fetch_symbol(outcome, last.enableRateLimit)]
    /\ UNCHANGED <<pc, current_orders, best_mean_zscore, files, position>>

\* lines 108-174: the loop is over
FetchDone ==
    /\ pc = "fetch"
    /\ Len(last.outcomes) = last.total_pairs
    /\ pc' = "fetched"
    /\ last' = [last EXCEPT !.kind = "fetched"]
    /\ UNCHANGED <<current_orders, best_mean_zscore, files, position>>

NextFetch ==
    \/ \E outcome \in FetchOutcomes : FetchSymbol(outcome)
    \/ FetchDone

SpecFetch == InitFetch /\ [][NextFetch]_vars

\* C25: between every two successive fetch_ohlcv calls of a scan the
\* program waits (the sleep of the loop or the throttle of the library),
\* whether the earlier call succeeded or failed.
C25_DelayBetweenCalls ==
    last.kind \in {"fetch", "fetched"} =>
        \A i \in 1..(Len(last.calls) - 1) :
           last.calls[i] = "fetch_ohlcv" => last.calls[i + 1] # "fetch_ohlcv"

\* ========================================================================
\* The z-score of a spread: calculate_zscore of func_cointegration_daily.py
\* and the two get_current_zscore functions
\* ========================================================================
\* the rolling window (20 in the source), kept small so that every window
\* of a series can be enumerated
z_score_window == 2

\* close prices of a candle
Closes == {1, 2}

\* hedge ratios of a candidate row and mean z-scores, in units of 1e-4
HedgeRatios == {10000, 20000}

MeanZscores == {-15000, 5000}

RECURSIVE GCD(_, _)
GCD(a, b) == IF b = 0 THEN a ELSE GCD(b, a % b)

\* a defined z-score, kept exactly: its sign and its square n / d
ZRatio(s, n, d) ==
    IF n = 0 THEN [k |-> "z", s |-> 0, n |-> 0, d |-> 1]
    ELSE [k |-> "z", s |-> s, n |-> n \div GCD(n, d), d |-> d \div GCD(n, d)]

\* spread = close1 - hedge_ratio * close2 over the zipped candles; the
\* hedge ratios are multiples of 0.5 and the spread is in units of 0.5 (the
\* z-score does not depend on the unit)
spread_of(closes1, closes2, hedge_ratio) ==
    [i \in 1..(IF Len(closes1) < Len(closes2) THEN Len(closes1)
               ELSE Len(closes2)) |->
        2 * closes1[i] - (hedge_ratio \div 5000) * closes2[i]]

\* (x - mean) / std of the window of w values that ends at index i, with
\* std over w - ddof; when the deviations are all zero, zero_std is the
\* result (0 / 0)
window_zscore(spread, i, w, ddof, zero_std) ==
    LET win == [j \in 1..w |-> spread[i - w + j]]
        S1  == SumSeq(win)
        S2  == SumSeq([j \in 1..w |-> win[j] * win[j]])
        dev == w * spread[i] - S1
        V   == w * S2 - S1 * S1
    IN  IF V = 0 THEN zero_std
        ELSE ZRatio(IF dev < 0 THEN -1 ELSE 1,
                    dev * dev * (w - ddof), V * w)

\* calculate_zscore(spread): rolling(window).mean() and .std() are NaN for
\* the first window - 1 rows; std is the sample deviation; a window of equal
\* values gives 0 / 0, which is NaN
calculate_zscore(spread) ==
    [i \in DOMAIN spread |->
        IF i < z_score_window THEN NaN
        ELSE window_zscore(spread, i, z_score_window, 1, NaN)]

\* get_current_zscore of func_trades_zscore.py on the candles fetch_ohlcv
\* returned: zscore[-1], or None when indexing the empty result raises
trades_get_current_zscore(closes1, closes2, hedge_ratio) ==
    LET zscore == calculate_zscore(spread_of(closes1, closes2, hedge_ratio))
    IN  IF zscore = <<>> THEN None ELSE zscore[Len(zscore)]

\* the call of check_positions, line 143: the fourth argument is mean_zscore
check_positions_zscore(closes1, closes2, hedge_ratio, mean_zscore) ==
    trades_get_current_zscore(closes1, closes2, mean_zscore)

\* get_current_zscore of func_exec_mean_zscore.py: too few candles raise
\* ValueError, which is caught (None); the deviation is over the whole
\* list with the population formula; a zero deviation returns 0.0
exec_mean_get_current_zscore(closes1, closes2, hedge_ratio, window) ==
    IF Len(closes1) < window \/ Len(closes2) < window THEN None
    ELSE LET spread == spread_of(closes1, closes2, hedge_ratio)
         IN  window_zscore(spread, Len(spread), Len(spread), 0,
                           ZRatio(0, 0, 1))

\* candles of the two symbols: fetch_ohlcv may return fewer than asked
Candles == UNION { [1..n -> Closes] : n \in (z_score_window - 1)..(z_score_window + 1) }

\* the z-score functions are called for a pair
InitZscore ==
    /\ pc = "zscore"
    /\ current_orders = NoOrders
    /\ best_mean_zscore = None
    /\ df_cointegrated_pairs = <<>>
    /\ df_top50_coint = [pn \in PairNames |-> Absent]
    /\ df_mean_halflife = [pn \in PairNames |-> NoColumn]
    /\ position = [s \in Symbols |-> 0]
    /\ \E closes1 \in Candles, closes2 \in Candles,
          hedge_ratio \in HedgeRatios, mean_zscore \in MeanZscores :
          /\ Len(closes1) = Len(closes2)
          /\ last = [kind |-> "candles", closes1 |-> closes1,
                     closes2 |-> closes2, hedge_ratio |-> hedge_ratio,
                     mean_zscore |-> mean_zscore, rolling |-> <<>>,
                     monitor |-> None, exec_mean |-> None]

\* the z-scores of the pair: the rolling series, the one the monitor cycle
\* of the trading loop asks for, and the one of func_exec_mean_zscore.py
ComputeZscore ==
    /\ pc = "zscore"
    /\ pc' = "zscored"
    /\ last' = [last EXCEPT
          !.kind = "zscore",
          !.rolling = calculate_zscore(
              spread_of(last.closes1, last.closes2, last.hedge_ratio)),
          !.monitor = check_positions_zscore(last.closes1, last.closes2,
                          last.hedge_ratio, last.mean_zscore),
          !.exec_mean = exec_mean_get_current_zscore(last.closes1,
                          last.closes2, last.hedge_ratio, z_score_window)]
    /\ UNCHANGED <<current_orders, best_mean_zscore, files, position>>

NextZscore == ComputeZscore

SpecZscore == InitZscore /\ [][NextZscore]_vars

\* ========================================================================
\* Properties of the z-score
\* ========================================================================
\* the window of the spread that ends at index i has equal values
ConstantWindow(spread, i) ==
    \A j \in (i - z_score_window + 1)..i : spread[j] = spread[i]

\* C21: the rolling z-score is undefined (NaN or None, not 0 and not
\* infinite) at every index below window - 1 and wherever the values of
\* the window are all equal; this holds for the rolling series and for the
\* current z-score functions.
C21_UndefinedZscore ==
    last.kind = "zscore" =>
        LET spread == spread_of(last.closes1, last.closes2, last.hedge_ratio)
            n == Len(spread)
        IN  /\ \A i \in 1..n :
                  (i < z_score_window \/ ConstantWindow(spread, i))
                     => last.rolling[i] = NaN
            /\ (n < z_score_window \/ ConstantWindow(spread, n))
                  => last.exec_mean \in {NaN, None}

\* C26: the current z-score of a monitor cycle is the z-score of the spread
\* close1 - hedge_ratio * close2 with the hedge ratio of the opened pair.
C26_MonitorUsesHedgeRatio ==
    last.kind = "zscore" =>
        last.monitor = trades_get_current_zscore(last.closes1, last.closes2,
                                                 last.hedge_ratio)

\* ========================================================================
\* The half-life of mean reversion: calculate_half_life of
\* func_mean_halflife.py
\* ========================================================================
\* the longest z-score column calculate_half_life is called with
MaxSeriesLen == 4

\* cells of a z-score column
SeriesCells == { Num(z) : z \in {-1, 0, 1} } \cup {NaN}

\* series.dropna()
RECURSIVE dropna(_)
dropna(series) ==
    IF series = <<>> THEN <<>>
    ELSE IF Head(series).k = "num"
         THEN <<Head(series).v>> \o dropna(Tail(series))
         ELSE dropna(Tail(series))

\* the rows of df_temp: lag = series.shift(1), delta = series - lag, the
\* first row dropped
lag_of(x) == [t \in 1..(Len(x) - 1) |-> x[t]]

delta_of(x) == [t \in 1..(Len(x) - 1) |-> x[t + 1] - x[t]]

\* the slope of the least-squares line of delta on lag with an intercept,
\* as the ratio num / den with den > 0 when lag is not constant
ols_slope(delta, lag) ==
    LET n   == Len(lag)
        Sx  == SumSeq(lag)
        Sy  == SumSeq(delta)
        Sxy == SumSeq([t \in 1..n |-> lag[t] * delta[t]])
        Sxx == SumSeq([t \in 1..n |-> lag[t] * lag[t]])
    IN  [num |-> n * Sxy - Sx * Sy, den |-> n * Sxx - Sx * Sx]

\* -math.log(2) / beta, kept exactly as ln(2) * n / d with d > 0
HalfLife(beta) ==
    LET g == GCD(Abs(beta.num), beta.den)
    IN  IF beta.num < 0
        THEN [k |-> "ln2", n |-> beta.den \div g, d |-> (-beta.num) \div g]
        ELSE [k |-> "ln2", n |-> -(beta.den \div g), d |-> beta.num \div g]

\* the outcome of sm.OLS(delta, sm.add_constant(lag)).fit().params[1]:
\* no rows, or a lag column that is one nonzero value (add_constant leaves
\* it alone, so params has one entry), raise; a lag column of zeros gives
\* the slope 0
fit_raises(lag) ==
    \/ lag = <<>>
    \/ /\ \A t \in DOMAIN lag : lag[t] = lag[1]
       /\ lag[1] # 0

\* calculate_half_life without the test of the sign of beta
calculate_half_life_any_slope(series) ==
    LET x     == dropna(series)
        lag   == lag_of(x)
        delta == delta_of(x)
        beta  == ols_slope(delta, lag)
    IN  IF x = <<>> THEN [raised |-> FALSE, half_life |-> None]
        ELSE IF fit_raises(lag) THEN [raised |-> TRUE, half_life |-> None]
        ELSE IF beta.num = 0 THEN [raised |-> TRUE, half_life |-> None]
        ELSE [raised |-> FALSE, half_life |-> HalfLife(beta)]

\* calculate_half_life(series): None for an empty series, NaN when
\* beta >= 0, -ln(2) / beta otherwise
calculate_half_life(series) ==
    LET x     == dropna(series)
        lag   == lag_of(x)
        delta == delta_of(x)
        beta  == ols_slope(delta, lag)
    IN  IF x = <<>> THEN [raised |-> FALSE, half_life |-> None]
        ELSE IF fit_raises(lag) THEN [raised |-> TRUE, half_life |-> None]
        ELSE IF beta.num >= 0 THEN [raised |-> FALSE, half_life |-> NaN]
        ELSE [raised |-> FALSE, half_life |-> HalfLife(beta)]

\* calculate_half_life is called with a z-score column
InitHalfLife ==
    /\ pc = "half_life"
    /\ current_orders = NoOrders
    /\ best_mean_zscore = None
    /\ df_cointegrated_pairs = <<>>
    /\ df_top50_coint = [pn \in PairNames |-> Absent]
    /\ df_mean_halflife = [pn \in PairNames |-> NoColumn]
    /\ position = [s \in Symbols |-> 0]
    /\ \E n \in 0..MaxSeriesLen : \E series \in [1..n -> SeriesCells] :
          last = [kind |-> "series", series |-> series, raised |-> FALSE,
                  half_life |-> None]

CalculateHalfLife ==
    /\ pc = "half_life"
    /\ pc' = "half_life_done"
    /\ LET res == calculate_half_life(last.series)
       IN  last' = [last EXCEPT !.kind = "half_life",
                                !.raised = res.raised,
                                !.half_life = res.half_life]
    /\ UNCHANGED <<current_orders, best_mean_zscore, files, position>>

NextHalfLife == CalculateHalfLife

SpecHalfLife == InitHalfLife /\ [][NextHalfLife]_vars

\* ========================================================================
\* Properties of the half-life
\* ========================================================================
\* a slope was fitted to the series: the regression has rows and the lag
\* column is not one repeated value
Fitted(series) ==
    LET lag == lag_of(dropna(series))
    IN  lag # <<>> /\ \E t \in DOMAIN lag : lag[t] # lag[1]

\* the fitted slope of the series
Beta(series) ==
    ols_slope(delta_of(dropna(series)), lag_of(dropna(series)))

\* C22: when a slope beta is fitted, calculate_half_life raises nothing;
\* the half-life is undefined (NaN) if beta >= 0, and otherwise it is
\* positive and equal to -ln(2) / beta.
C22_HalfLifeRule ==
    (last.kind = "half_life" /\ Fitted(last.series)) =>
        LET beta == Beta(last.series)
        IN  /\ ~last.raised
            /\ beta.num >= 0 => last.half_life = NaN
            /\ beta.num < 0 =>
                  /\ last.half_life.k = "ln2"
                  /\ last.half_life.n > 0 /\ last.half_life.d > 0
                  /\ last.half_life.n * (-beta.num)
                        = last.half_life.d * beta.den

\* a series with a positive fitted slope got an undefined half-life
C22_Witness ==
    /\ last.kind = "half_life"
    /\ Fitted(last.series)
    /\ Beta(last.series).num > 0
    /\ ~last.raised
    /\ last.half_life = NaN

====
